---- MODULE Spec2Model ----
(***************************************************************************)
(* Model of the db-migration orchestrator: main() calls nine step          *)
(* functions in order and terminates with log.Fatal on the first error.    *)
(* The repository holds three variants of the program:                     *)
(*   "main"      src/main.go            nine steps, cleanup drops tables   *)
(*   "part_000"  src/unnamed/part_000   nine steps, cleanup also drops     *)
(*               sequences and enums, dumpData removes the directory,      *)
(*               data restore wrapped in BEGIN/COMMIT/ROLLBACK sessions    *)
(*   "part_001"  src/unnamed/part_001   data only: steps 1, 3, 7, 8        *)
(* External tools (psql, pg_dump, pg_restore, the filesystem) are modelled *)
(* by their effect on the destination database and the dump directory.     *)
(***************************************************************************)
EXTENDS Integers, Sequences, FiniteSets, TLC

VARIABLES
  variant,    \* which program of the repository runs
  run,        \* number of the current invocation of the program
  pc,         \* state of the run: Idle, one of the nine steps, Done, Failed
  sub,        \* position inside the step function that is executing
  err,        \* error value the step function returns to main
  src,        \* source database (never written)
  dst,        \* destination database
  dst0,       \* destination database when the current run started
  trigOff,    \* destination tables whose triggers are disabled in the catalog
  dir,        \* the dump directory backup_dir
  sess,       \* the administrative session of the cleanup script
  started,    \* steps started in this run, in order (one log line each)
  outcome,    \* per step: none, running, ok, fail
  probes,     \* result of the liveness probe per endpoint
  issued,     \* SQL directives sent to the destination in this run
  restoreEnf, \* enforcement in effect in the sessions the data restore wrote through
  dumpSaw,    \* what the dump directory held when each dump tool was invoked
  fsOps,      \* filesystem mutations performed by the orchestrator itself
  fatal,      \* fatal messages emitted in this run
  dstDone,    \* destination database at the end of each successful run
  src0,       \* source database when the model starts
  calls,      \* database tools invoked in this run, with the endpoint addressed
  completed   \* completion messages emitted in this run

vars == <<variant, run, pc, sub, err, src, dst, dst0, trigOff, dir, sess,
          started, outcome, probes, issued, restoreEnf, dumpSaw, fsOps,
          fatal, dstDone, src0, calls, completed>>

----------------------------------------------------------------------------
\* Bounds of the model

MaxRows == 1
MaxRuns == 2

\* Names of the objects that may live in schema public.  "A" is a table
\* created with a quoted, mixed-case name.
TableNames == {"a", "A"}
SeqNames   == {"s"}
EnumNames  == {"e"}

Variants == {"main", "part_000", "part_001"}

----------------------------------------------------------------------------
\* Databases

EmptyRows == [t \in TableNames |-> 0]

EmptyDB == [tables |-> {}, rows |-> EmptyRows, seqs |-> {}, enums |-> {}]

Databases ==
  { [tables |-> T, rows |-> r, seqs |-> S, enums |-> E] :
      T \in SUBSET TableNames,
      r \in [TableNames -> 0..MaxRows],
      S \in SUBSET SeqNames,
      E \in SUBSET EnumNames }

WellFormed(d) == \A t \in TableNames : t \notin d.tables => d.rows[t] = 0

\* Dump directory: absent, or a directory holding a set of archives.
Archive(kind, d) == [kind |-> kind, db |-> d]

NoDir    == [exists |-> FALSE, files |-> {}]
EmptyDir == [exists |-> TRUE, files |-> {}]
StaleDir == [exists |-> TRUE, files |-> {Archive("stale", EmptyDB)}]

NoSession == [open |-> FALSE, role |-> "origin", snap |-> {}, phase |-> 0,
              cursor |-> {}]

\* psql exits when the statement has run: the session and its settings end.
CloseSession(s) == NoSession

Directive(k, stmt, ok) == [step |-> k, stmt |-> stmt, ok |-> ok]

\* Variation of ConnOf: pg_restore is given --dbname=sourceDB.
ConnOfRestoreToSource(tool) ==
  IF tool \in {"pg_dump", "pg_restore"} THEN "Source" ELSE "Destination"

\* The connection string a tool is started with: pg_dump gets
\* --dbname=sourceDB, psql and pg_restore get destinationDB.
ConnOf(tool) == IF tool = "pg_dump" THEN "Source" ELSE "Destination"

\* Variation of DbType: both calls of testDBConnection pass "Source".
DbTypeSourceTwice(conn) == "Source"

\* The dbType main() passes to testDBConnection along with a connection
\* string; it is the name the probe's log lines print.
DbType(conn) == conn


ToolCall(k, tool, conn, label, ok) ==
  [step |-> k, tool |-> tool, conn |-> conn, label |-> label, ok |-> ok]

\* The database behind a connection string.
DbAt(conn) == IF conn = "Source" THEN src ELSE dst

\* A tool connected through conn leaves the database it addressed as new.
WriteDb(conn, new) ==
  /\ dst' = IF conn = "Destination" THEN new ELSE dst
  /\ src' = IF conn = "Source" THEN new ELSE src

\* Variation of FatalNames: the message after restoreSchema was copied from
\* the one after dumpSchema and still reads "Schema dump failed".
FatalNamesCopied(k) == IF k = 5 THEN 4 ELSE k

\* The step the text of the log.Fatal message after the call of step k names.
FatalNames(k) ==
  CASE k = 1 -> 1   \* "Database connection test failed. Migration aborted."
    [] k = 2 -> 2   \* "Failed to clean destination database"
    [] k = 3 -> 3   \* "Failed to reset backup directory"
    [] k = 4 -> 4   \* "Schema dump failed"
    [] k = 5 -> 5   \* "Schema restoration failed"
    [] k = 6 -> 6   \* "Error disabling constraints"
    [] k = 7 -> 7   \* "Data dump failed"
    [] k = 8 -> 8   \* "Data restoration failed"
    [] k = 9 -> 9   \* "Error enabling constraints"

----------------------------------------------------------------------------
\* main(): the sequence of steps

StepName ==
  [k \in 1..9 |->
     CASE k = 1 -> "CheckingConnectivity"
       [] k = 2 -> "CleaningDestination"
       [] k = 3 -> "ResettingDir"
       [] k = 4 -> "DumpingSchema"
       [] k = 5 -> "RestoringSchema"
       [] k = 6 -> "DisablingConstraints"
       [] k = 7 -> "DumpingData"
       [] k = 8 -> "RestoringData"
       [] k = 9 -> "EnablingConstraints"]

StepStates == {StepName[k] : k \in 1..9}

StepNo(p) == CHOOSE k \in 1..9 : StepName[k] = p

\* The calls main() makes, in program order.
StepsOf(v) ==
  IF v = "part_001" THEN <<1, 3, 7, 8>> ELSE <<1, 2, 3, 4, 5, 6, 7, 8, 9>>

IndexOf(v, k) == CHOOSE i \in 1..Len(StepsOf(v)) : StepsOf(v)[i] = k

\* Variation of NextState: the calls of steps 6 and 7 stand in the wrong
\* order in main().
NextStateSwapped(v, k) ==
  CASE v # "part_001" /\ k = 5 -> StepName[7]
    [] v # "part_001" /\ k = 7 -> StepName[6]
    [] v # "part_001" /\ k = 6 -> StepName[8]
    [] OTHER -> IF IndexOf(v, k) = Len(StepsOf(v))
                THEN "Done"
                ELSE StepName[StepsOf(v)[IndexOf(v, k) + 1]]

\* The state main() is in after step k returned without error.
NextState(v, k) ==
  IF IndexOf(v, k) = Len(StepsOf(v))
  THEN "Done"
  ELSE StepName[StepsOf(v)[IndexOf(v, k) + 1]]

\* First position inside the function of step k.
Entry(v, k) ==
  CASE k = 1 -> "source"
    [] k = 2 -> "psql"
    [] k = 3 -> "removeall"
    [] k = 4 -> "pg_dump"
    [] k = 5 -> "pg_restore"
    [] k = 6 -> "psql"
    [] k = 7 -> IF v = "part_000" THEN "stat" ELSE "pg_dump"
    [] k = 8 -> IF v = "part_000" THEN "begin" ELSE "pg_restore"
    [] k = 9 -> "psql"

\* Variation of ConnTestFailed: && written for ||.
ConnTestFailedBoth(s, d) == ~s /\ ~d

\* if !testDBConnection(source) || !testDBConnection(destination)
ConnTestFailed(s, d) == ~s \/ ~d

\* Variations of ErrNotNil: the error of one step is not checked.
ErrNotNilButDump(k, e) == e # "nil" /\ k # 4

ErrNotNilButSchemaRestore(k, e) == e # "nil" /\ k # 5

ErrNotNilButEnable(k, e) == e # "nil" /\ k # 9

ErrNotNilButDataRestore(k, e) == e # "nil" /\ k # 8

\* if err := step(); err != nil { log.Fatalf(...) }
ErrNotNil(k, e) == e # "nil"

NoOutcome == [k \in 1..9 |-> "none"]
NoProbes  == [Source |-> "none", Destination |-> "none"]
NoDumpSaw == [schema |-> {}, data |-> {}]

----------------------------------------------------------------------------
Init ==
  /\ variant \in Variants
  /\ run = 1
  /\ pc = "Idle"
  /\ sub = "call"
  /\ err = "nil"
  /\ src \in {d \in Databases : WellFormed(d)}
  /\ dst \in {d \in Databases : WellFormed(d)}
  /\ dst0 = dst
  /\ trigOff = {}
  /\ dir \in {NoDir, EmptyDir, StaleDir}
  /\ sess = NoSession
  /\ started = <<>>
  /\ outcome = NoOutcome
  /\ probes = NoProbes
  /\ issued = <<>>
  /\ restoreEnf = <<>>
  /\ dumpSaw = NoDumpSaw
  /\ fsOps = <<>>
  /\ fatal = <<>>
  /\ dstDone = <<>>
  /\ src0 = src
  /\ calls = <<>>
  /\ completed = 0

\* main.go:21-28: os.Getwd, then the first step.
Start ==
  /\ pc = "Idle"
  /\ \/ /\ pc' = StepName[StepsOf(variant)[1]]
        /\ fatal' = fatal
     \/ /\ pc' = "Failed"
        /\ fatal' = Append(fatal, 0)
  /\ sub' = "call"
  /\ UNCHANGED <<calls, completed, src0, variant, run, err, src, dst, dst0, trigOff, dir, sess,
                 started, outcome, probes, issued, restoreEnf, dumpSaw,
                 fsOps, dstDone>>

\* main() calls the function of the current step; the function logs its
\* first line.
Call ==
  /\ pc \in StepStates
  /\ sub = "call"
  /\ LET k == StepNo(pc) IN
       /\ started' = Append(started, k)
       /\ outcome' = [outcome EXCEPT ![k] = "running"]
       /\ sub' = Entry(variant, k)
  /\ err' = "nil"
  /\ UNCHANGED <<calls, completed, src0, variant, run, pc, src, dst, dst0, trigOff, dir, sess,
                 probes, issued, restoreEnf, dumpSaw, fsOps, fatal, dstDone>>

\* The function returned: main() tests the result and either goes on to the
\* next step or terminates through log.Fatal.
Return ==
  /\ pc \in StepStates
  /\ sub = "ret"
  /\ LET k     == StepNo(pc)
         bad   == IF k = 1
                  THEN probes.Source # "ok" \/ probes.Destination # "ok"
                  ELSE err # "nil"
         abort == IF k = 1
                  THEN ConnTestFailed(probes.Source = "ok",
                                      probes.Destination = "ok")
                  ELSE ErrNotNil(k, err)
         next  == IF abort THEN "Failed" ELSE NextState(variant, k)
     IN
       /\ outcome' = [outcome EXCEPT ![k] = IF bad THEN "fail" ELSE "ok"]
       /\ pc' = next
       /\ fatal' = IF abort THEN Append(fatal, FatalNames(k)) ELSE fatal
       \* log.Println("Database migration completed successfully!")
       /\ completed' = IF next = "Done" THEN completed + 1 ELSE completed
       /\ dstDone' = IF next = "Done" THEN Append(dstDone, dst) ELSE dstDone
  /\ sub' = "call"
  /\ err' = "nil"
  /\ UNCHANGED <<calls, src0, variant, run, src, dst, dst0, trigOff, dir, sess, started,
                 probes, issued, restoreEnf, dumpSaw, fsOps>>

----------------------------------------------------------------------------
\* Step 1: testDBConnection, once per endpoint (sql.Open + db.Ping)

TestSource ==
  /\ pc = "CheckingConnectivity"
  /\ sub = "source"
  /\ \E ok \in BOOLEAN :
       /\ probes' = [probes EXCEPT !.Source = IF ok THEN "ok" ELSE "fail"]
       /\ calls' = Append(calls, ToolCall(1, "ping", "Source",
                                          DbType("Source"), ok))
       \* || short-circuits: the destination is probed only after the
       \* source probe returned true
       /\ sub' = IF ok THEN "destination" ELSE "ret"
  /\ UNCHANGED <<completed, src0, variant, run, pc, err, src, dst, dst0, trigOff, dir, sess,
                 started, outcome, issued, restoreEnf, dumpSaw, fsOps, fatal,
                 dstDone>>

TestDestination ==
  /\ pc = "CheckingConnectivity"
  /\ sub = "destination"
  /\ \E ok \in BOOLEAN :
       /\ probes' = [probes EXCEPT !.Destination =
                                     IF ok THEN "ok" ELSE "fail"]
       /\ calls' = Append(calls, ToolCall(1, "ping", "Destination",
                                          DbType("Destination"), ok))
  /\ sub' = "ret"
  /\ UNCHANGED <<completed, src0, variant, run, pc, err, src, dst, dst0, trigOff, dir, sess,
                 started, outcome, issued, restoreEnf, dumpSaw, fsOps, fatal,
                 dstDone>>

----------------------------------------------------------------------------
\* Step 2: cleanDestinationDB, one DO block run by psql -c

\* The DROP statements are built by concatenating the catalog name, unquoted,
\* into the statement text; the server folds an unquoted identifier to lower
\* case before it looks the object up.
Fold(n) == IF n = "A" THEN "a" ELSE n

\* The FOR loops of the script, in order.
Phases(v) ==
  IF v = "part_000" THEN <<"tables", "seqs", "enums">> ELSE <<"tables">>

\* SELECT ... FROM pg_tables / pg_sequences / pg_type for schema public
Catalog(d, kind) ==
  CASE kind = "tables" -> d.tables
    [] kind = "seqs"   -> d.seqs
    [] kind = "enums"  -> d.enums

\* Variation of DropIfExists: the statement is built but never executed.
DropSkipped(d, kind, n) == d

\* DROP <kind> IF EXISTS public.<n> CASCADE, n as the server resolves it
DropIfExists(d, kind, n) ==
  CASE kind = "tables" ->
         [d EXCEPT !.tables = @ \ {n},
                   !.rows = [t \in TableNames |-> IF t = n THEN 0 ELSE @[t]]]
    [] kind = "seqs"  -> [d EXCEPT !.seqs = @ \ {n}]
    [] kind = "enums" -> [d EXCEPT !.enums = @ \ {n}]

\* Variation of Rollback: the statements run outside a block, each committed
\* on its own.
RollbackNothing(d, snap) == d

\* An error inside the DO block aborts its transaction: every drop of the
\* script is undone.
Rollback(d, snap) == snap

\* psql connects and the block starts: SET session_replication_role = replica,
\* then the first FOR loop opens its cursor.
CleanBegin ==
  /\ pc = "CleaningDestination"
  /\ sub = "psql"
  /\ \/ /\ sess' = [open |-> TRUE, role |-> "replica", snap |-> {dst},
                    phase |-> 1,
                    cursor |-> Catalog(dst, Phases(variant)[1])]
        /\ issued' = Append(issued, Directive(2, "replica", TRUE))
        /\ sub' = "loop"
        /\ err' = err
        /\ calls' = Append(calls, ToolCall(2, "psql", ConnOf("psql"), "", TRUE))
     \/ \* psql cannot connect or is not found
        /\ err' = "err"
        /\ sub' = "ret"
        /\ calls' = Append(calls, ToolCall(2, "psql", ConnOf("psql"), "", FALSE))
        /\ UNCHANGED <<sess, issued>>
  /\ UNCHANGED <<completed, src0, variant, run, pc, src, dst, dst0, trigOff, dir, started,
                 outcome, probes, restoreEnf, dumpSaw, fsOps, fatal, dstDone>>

\* One iteration of the current FOR loop: one DROP, which succeeds or raises.
CleanDrop ==
  /\ pc = "CleaningDestination"
  /\ sub = "loop"
  /\ \E n \in sess.cursor :
       \/ /\ dst' = DropIfExists(dst, Phases(variant)[sess.phase], Fold(n))
          /\ trigOff' = IF Phases(variant)[sess.phase] = "tables"
                        THEN trigOff \ {Fold(n)} ELSE trigOff
          /\ sess' = [sess EXCEPT !.cursor = @ \ {n}]
          /\ UNCHANGED <<sub, err>>
       \/ /\ dst' = Rollback(dst, CHOOSE d \in sess.snap : TRUE)
          /\ trigOff' = trigOff
          /\ sess' = NoSession
          /\ err' = "err"
          /\ sub' = "ret"
  /\ UNCHANGED <<calls, completed, src0, variant, run, pc, src, dst0, dir, started, outcome, probes,
                 issued, restoreEnf, dumpSaw, fsOps, fatal, dstDone>>

\* The current FOR loop is exhausted and the next one opens its cursor.
CleanNextLoop ==
  /\ pc = "CleaningDestination"
  /\ sub = "loop"
  /\ sess.cursor = {}
  /\ sess.phase < Len(Phases(variant))
  /\ sess' = [sess EXCEPT !.phase = @ + 1,
                          !.cursor = Catalog(dst, Phases(variant)[sess.phase + 1])]
  /\ UNCHANGED <<calls, completed, src0, variant, run, pc, sub, err, src, dst, dst0, trigOff, dir,
                 started, outcome, probes, issued, restoreEnf, dumpSaw, fsOps,
                 fatal, dstDone>>

\* SET session_replication_role = origin, the block commits, psql exits.
CleanEnd ==
  /\ pc = "CleaningDestination"
  /\ sub = "loop"
  /\ sess.cursor = {}
  /\ sess.phase = Len(Phases(variant))
  /\ sess' = NoSession
  /\ issued' = Append(issued, Directive(2, "origin", TRUE))
  /\ err' = "nil"
  /\ sub' = "ret"
  /\ UNCHANGED <<calls, completed, src0, variant, run, pc, src, dst, dst0, trigOff, dir, started,
                 outcome, probes, restoreEnf, dumpSaw, fsOps, fatal, dstDone>>

----------------------------------------------------------------------------
\* Step 3: resetBackupDir

\* Variation of RemoveAll: os.Remove, which leaves a populated directory
\* where it is.
RemoveOnlyEmpty(d) == IF d.files = {} THEN NoDir ELSE d

\* os.RemoveAll: removes the path and everything below it; a missing path is
\* not an error.
RemoveAll(d) == NoDir

\* os.MkdirAll: creates the directory; an existing directory is left as it is.
MkdirAll(d) == IF d.exists THEN d ELSE EmptyDir

ResetRemove ==
  /\ pc = "ResettingDir"
  /\ sub = "removeall"
  /\ \/ /\ dir' = RemoveAll(dir)
        /\ fsOps' = Append(fsOps, [step |-> 3, op |-> "RemoveAll", found |-> dir.exists])
        /\ sub' = "mkdirall"
        /\ err' = err
     \/ /\ err' = "err"
        /\ sub' = "ret"
        /\ UNCHANGED <<dir, fsOps>>
  /\ UNCHANGED <<calls, completed, src0, variant, run, pc, src, dst, dst0, trigOff, sess, started,
                 outcome, probes, issued, restoreEnf, dumpSaw, fatal, dstDone>>

ResetMkdir ==
  /\ pc = "ResettingDir"
  /\ sub = "mkdirall"
  /\ \/ /\ dir' = MkdirAll(dir)
        /\ fsOps' = Append(fsOps, [step |-> 3, op |-> "MkdirAll", found |-> dir.exists])
        /\ err' = "nil"
     \/ /\ err' = "err"
        /\ UNCHANGED <<dir, fsOps>>
  /\ sub' = "ret"
  /\ UNCHANGED <<calls, completed, src0, variant, run, pc, src, dst, dst0, trigOff, sess, started,
                 outcome, probes, issued, restoreEnf, dumpSaw, fatal, dstDone>>

----------------------------------------------------------------------------
\* Steps 4 and 7: pg_dump --format=directory --file=dumpDir

\* pg_dump writes into a directory it can create or that exists and is
\* empty; mkdir on a populated directory fails with "File exists".
PgDumpCanWrite(d) == ~d.exists \/ d.files = {}

\* The directory after a dump of the given kind taken from source database s.
PgDumpResult(kind, s) == [exists |-> TRUE, files |-> {Archive(kind, s)}]

\* What a failed pg_dump can leave behind.
PgDumpDebris(d) ==
  IF PgDumpCanWrite(d)
  THEN {d, [exists |-> TRUE, files |-> {Archive("partial", EmptyDB)}]}
  ELSE {d}

DumpSchema ==
  /\ pc = "DumpingSchema"
  /\ sub = "pg_dump"
  /\ dumpSaw' = [dumpSaw EXCEPT !.schema = {dir}]
  /\ \/ /\ PgDumpCanWrite(dir)
        /\ dir' = PgDumpResult("schema", src)
        /\ err' = "nil"
        /\ calls' = Append(calls, ToolCall(4, "pg_dump", ConnOf("pg_dump"), "", TRUE))
     \/ /\ dir' \in PgDumpDebris(dir)
        /\ err' = "err"
        /\ calls' = Append(calls, ToolCall(4, "pg_dump", ConnOf("pg_dump"), "", FALSE))
  /\ sub' = "ret"
  /\ UNCHANGED <<completed, src0, variant, run, pc, src, dst, dst0, trigOff, sess, started,
                 outcome, probes, issued, restoreEnf, fsOps, fatal, dstDone>>

\* part_000 only: os.Stat and, unless the path is absent, os.RemoveAll.
DumpDataRemove ==
  /\ pc = "DumpingData"
  /\ sub = "stat"
  /\ \/ /\ ~dir.exists
        /\ sub' = "pg_dump"
        /\ UNCHANGED <<dir, fsOps, err>>
     \/ /\ dir.exists
        /\ dir' = RemoveAll(dir)
        /\ fsOps' = Append(fsOps, [step |-> 7, op |-> "RemoveAll", found |-> dir.exists])
        /\ sub' = "pg_dump"
        /\ err' = err
     \/ /\ dir.exists
        /\ err' = "err"
        /\ sub' = "ret"
        /\ UNCHANGED <<dir, fsOps>>
  /\ UNCHANGED <<calls, completed, src0, variant, run, pc, src, dst, dst0, trigOff, sess, started,
                 outcome, probes, issued, restoreEnf, dumpSaw, fatal, dstDone>>

DumpData ==
  /\ pc = "DumpingData"
  /\ sub = "pg_dump"
  /\ dumpSaw' = [dumpSaw EXCEPT !.data = {dir}]
  /\ \/ /\ PgDumpCanWrite(dir)
        /\ dir' = PgDumpResult("data", src)
        /\ err' = "nil"
        /\ calls' = Append(calls, ToolCall(7, "pg_dump", ConnOf("pg_dump"), "", TRUE))
     \/ /\ dir' \in PgDumpDebris(dir)
        /\ err' = "err"
        /\ calls' = Append(calls, ToolCall(7, "pg_dump", ConnOf("pg_dump"), "", FALSE))
  /\ sub' = "ret"
  /\ UNCHANGED <<completed, src0, variant, run, pc, src, dst, dst0, trigOff, sess, started,
                 outcome, probes, issued, restoreEnf, fsOps, fatal, dstDone>>

----------------------------------------------------------------------------
\* Steps 5 and 8: pg_restore reading dumpDir

\* The archives pg_restore can open in the directory.
Readable(d) == {a \in d.files : a.kind \in {"schema", "data"}}

\* An archive cut down to the tables T (what a restore that stops early has
\* processed).
Restrict(a, T) ==
  [a EXCEPT !.db.tables = T,
            !.db.rows = [t \in TableNames |-> IF t \in T THEN @[t] ELSE 0]]

\* Variation of RestoreSchemaEffect: without --clean an existing table is
\* kept as it is, rows included.
RestoreSchemaKeepExisting(d, a) ==
  IF a.kind = "schema"
  THEN [tables |-> d.tables \cup a.db.tables,
        rows   |-> d.rows,
        seqs   |-> d.seqs \cup a.db.seqs,
        enums  |-> d.enums \cup a.db.enums]
  ELSE d

\* pg_restore --clean --if-exists --schema-only: every object of the archive
\* is dropped if it exists and created anew; a data-only archive has no
\* schema entries.
RestoreSchemaEffect(d, a) ==
  IF a.kind = "schema"
  THEN [tables |-> d.tables \cup a.db.tables,
        rows   |-> [t \in TableNames |->
                      IF t \in a.db.tables THEN 0 ELSE d.rows[t]],
        seqs   |-> d.seqs \cup a.db.seqs,
        enums  |-> d.enums \cup a.db.enums]
  ELSE d

RestoreSchema ==
  /\ pc = "RestoringSchema"
  /\ sub = "pg_restore"
  /\ LET c == ConnOf("pg_restore") IN
     \/ \E a \in Readable(dir) :
          /\ WriteDb(c, RestoreSchemaEffect(DbAt(c), a))
          /\ trigOff' = IF a.kind = "schema" THEN trigOff \ a.db.tables
                        ELSE trigOff
          /\ err' = "nil"
          /\ calls' = Append(calls, ToolCall(5, "pg_restore", c, "", TRUE))
     \/ \* the restore stops with an error after part of the archive
        \E a \in Readable(dir) : \E T \in SUBSET a.db.tables :
          /\ WriteDb(c, RestoreSchemaEffect(DbAt(c), Restrict(a, T)))
          /\ trigOff' = IF a.kind = "schema" THEN trigOff \ T ELSE trigOff
          /\ err' = "err"
          /\ calls' = Append(calls, ToolCall(5, "pg_restore", c, "", FALSE))
     \/ \* pg_restore cannot be launched, cannot connect or finds no archive
        /\ err' = "err"
        /\ calls' = Append(calls, ToolCall(5, "pg_restore", c, "", FALSE))
        /\ UNCHANGED <<src, dst, trigOff>>
  /\ sub' = "ret"
  /\ UNCHANGED <<completed, src0, variant, run, pc, dst0, dir, sess, started,
                 outcome, probes, issued, restoreEnf, dumpSaw, fsOps, fatal,
                 dstDone>>

\* The value of session_replication_role in a session that has just
\* connected: SET in another session does not reach it.
RoleAtConnect == "origin"

\* --disable-triggers is passed by main.go and part_000, not by part_001.
DisableTriggersFlag(v) == v # "part_001"

\* pg_restore --data-only: the rows of the archive's tables in T are appended
\* to the tables of the destination; a schema-only archive has no data.
RestoreDataEffect(d, a, T) ==
  IF a.kind = "data"
  THEN [d EXCEPT !.rows = [t \in TableNames |->
                             IF t \in T THEN @[t] + a.db.rows[t] ELSE @[t]]]
  ELSE d

\* Variation of AfterPgRestore: the COMMIT follows the restore whatever its
\* result.
AfterPgRestoreCommit(v, ok) == IF v = "part_000" THEN "commit" ELSE "ret"

\* Where the data restore of variant v goes after pg_restore returned.
AfterPgRestore(v, ok) ==
  IF v = "part_000" THEN (IF ok THEN "commit" ELSE "rollback") ELSE "ret"

RestoreData ==
  /\ pc = "RestoringData"
  /\ sub = "pg_restore"
  /\ LET c == ConnOf("pg_restore") IN
     \/ \E a \in Readable(dir) :
          /\ a.db.tables \subseteq DbAt(c).tables
          /\ WriteDb(c, RestoreDataEffect(DbAt(c), a, a.db.tables))
          /\ restoreEnf' = Append(restoreEnf,
                                  [role |-> RoleAtConnect,
                                   triggersOff |-> DisableTriggersFlag(variant)])
          /\ trigOff' = trigOff
          /\ err' = "nil"
          /\ sub' = AfterPgRestore(variant, TRUE)
          /\ calls' = Append(calls, ToolCall(8, "pg_restore", c, "", TRUE))
     \/ \* the restore stops with an error after loading the tables in T;
        \* a restore that dies while loading leaves the triggers of the
        \* tables in O disabled
        \E a \in Readable(dir) :
        \E T \in SUBSET (a.db.tables \cap DbAt(c).tables) :
        \E O \in SUBSET ((a.db.tables \cap DbAt(c).tables) \ T) :
          /\ DisableTriggersFlag(variant) \/ O = {}
          /\ WriteDb(c, RestoreDataEffect(DbAt(c), a, T))
          /\ restoreEnf' = Append(restoreEnf,
                                  [role |-> RoleAtConnect,
                                   triggersOff |-> DisableTriggersFlag(variant)])
          /\ trigOff' = trigOff \cup O
          /\ err' = "err"
          /\ sub' = AfterPgRestore(variant, FALSE)
          /\ calls' = Append(calls, ToolCall(8, "pg_restore", c, "", FALSE))
     \/ \* pg_restore cannot be launched, cannot connect or finds no archive
        /\ err' = "err"
        /\ sub' = AfterPgRestore(variant, FALSE)
        /\ calls' = Append(calls, ToolCall(8, "pg_restore", c, "", FALSE))
        /\ UNCHANGED <<src, dst, trigOff, restoreEnf>>
  /\ UNCHANGED <<completed, src0, variant, run, pc, dst0, dir, sess, started,
                 outcome, probes, issued, dumpSaw, fsOps, fatal, dstDone>>

----------------------------------------------------------------------------
\* psql -c "<statement>": one session per invocation

\* Steps 6 and 9: SET session_replication_role = 'replica' | 'origin'
SetRole(state, k, role) ==
  /\ pc = state
  /\ sub = "psql"
  /\ \/ /\ sess' = CloseSession([NoSession EXCEPT !.open = TRUE,
                                                  !.role = role])
        /\ issued' = Append(issued, Directive(k, role, TRUE))
        /\ err' = "nil"
        /\ calls' = Append(calls, ToolCall(k, "psql", ConnOf("psql"), "", TRUE))
     \/ /\ sess' = sess
        /\ issued' = Append(issued, Directive(k, role, FALSE))
        /\ err' = "err"
        /\ calls' = Append(calls, ToolCall(k, "psql", ConnOf("psql"), "", FALSE))
  /\ sub' = "ret"
  /\ UNCHANGED <<completed, src0, variant, run, pc, src, dst, dst0, trigOff, dir, started,
                 outcome, probes, restoreEnf, dumpSaw, fsOps, fatal, dstDone>>

DisableConstraints == SetRole("DisablingConstraints", 6, "replica")

EnableConstraints == SetRole("EnablingConstraints", 9, "origin")

\* part_000, step 8: BEGIN, COMMIT and ROLLBACK, each in a psql of its own.
\* The transaction a session opens ends with the session, so none of them
\* changes the destination.
TxBegin ==
  /\ pc = "RestoringData"
  /\ sub = "begin"
  /\ \/ /\ issued' = Append(issued, Directive(8, "BEGIN", TRUE))
        /\ sub' = "pg_restore"
        /\ err' = err
        /\ calls' = Append(calls, ToolCall(8, "psql", ConnOf("psql"), "", TRUE))
     \/ /\ issued' = Append(issued, Directive(8, "BEGIN", FALSE))
        /\ err' = "err"
        /\ sub' = "ret"
        /\ calls' = Append(calls, ToolCall(8, "psql", ConnOf("psql"), "", FALSE))
  /\ UNCHANGED <<completed, src0, variant, run, pc, src, dst, dst0, trigOff, dir, sess,
                 started, outcome, probes, restoreEnf, dumpSaw, fsOps, fatal,
                 dstDone>>

TxCommit ==
  /\ pc = "RestoringData"
  /\ sub = "commit"
  /\ \E ok \in BOOLEAN :
       /\ issued' = Append(issued, Directive(8, "COMMIT", ok))
       /\ err' = IF ok THEN "nil" ELSE "err"
       /\ calls' = Append(calls, ToolCall(8, "psql", ConnOf("psql"), "", ok))
  /\ sub' = "ret"
  /\ UNCHANGED <<completed, src0, variant, run, pc, src, dst, dst0, trigOff, dir, sess,
                 started, outcome, probes, restoreEnf, dumpSaw, fsOps, fatal,
                 dstDone>>

\* The result of the ROLLBACK is discarded; the restore error is returned.
TxRollback ==
  /\ pc = "RestoringData"
  /\ sub = "rollback"
  /\ \E ok \in BOOLEAN :
       /\ issued' = Append(issued, Directive(8, "ROLLBACK", ok))
       /\ calls' = Append(calls, ToolCall(8, "psql", ConnOf("psql"), "", ok))
  /\ err' = "err"
  /\ sub' = "ret"
  /\ UNCHANGED <<completed, src0, variant, run, pc, src, dst, dst0, trigOff, dir, sess,
                 started, outcome, probes, restoreEnf, dumpSaw, fsOps, fatal,
                 dstDone>>

----------------------------------------------------------------------------
\* The program is run again after a successful run, against the same source,
\* destination and working directory.
Rerun ==
  /\ pc = "Done"
  /\ run < MaxRuns
  /\ run' = run + 1
  /\ pc' = "Idle"
  /\ sub' = "call"
  /\ err' = "nil"
  /\ dst0' = dst
  /\ started' = <<>>
  /\ outcome' = NoOutcome
  /\ probes' = NoProbes
  /\ issued' = <<>>
  /\ restoreEnf' = <<>>
  /\ dumpSaw' = NoDumpSaw
  /\ fsOps' = <<>>
  /\ fatal' = <<>>
  /\ calls' = <<>>
  /\ completed' = 0
  /\ UNCHANGED <<src0, variant, src, dst, trigOff, dir, sess, dstDone>>

Next ==
  \/ Start \/ Call \/ Return
  \/ TestSource \/ TestDestination
  \/ CleanBegin \/ CleanDrop \/ CleanNextLoop \/ CleanEnd
  \/ ResetRemove \/ ResetMkdir
  \/ DumpSchema \/ RestoreSchema
  \/ DisableConstraints
  \/ DumpDataRemove \/ DumpData
  \/ TxBegin \/ RestoreData \/ TxCommit \/ TxRollback
  \/ EnableConstraints
  \/ Rerun

Spec == Init /\ [][Next]_vars

\* Every probe, filesystem call and subprocess returns, and main() goes on
\* after each return: no step of the program is postponed for ever.
FairSpec == Spec /\ WF_vars(Next)

----------------------------------------------------------------------------
\* Properties

NineStep == variant \in {"main", "part_000"}

LastStarted == IF started = <<>> THEN 0 ELSE started[Len(started)]

Running == {k \in 1..9 : outcome[k] = "running"}

\* C1: fail-fast.  Once a step has failed the run is in Failed, and the
\* failed step is the last step that was started: no later step of the
\* sequence is started in that run.
C1_FailFast ==
  \A k \in 1..9 :
    outcome[k] = "fail" =>
      /\ pc = "Failed"
      /\ LastStarted = k
      /\ Running = {}
      /\ \A j \in 1..9 : (j # k /\ outcome[j] # "none") => outcome[j] = "ok"

C1_Witness ==
  /\ pc = "Failed"
  /\ outcome[4] = "fail"
  /\ started = <<1, 2, 3, 4>>

\* C2: strict sequencing.  The nine-step programs start their steps in the
\* order 1..9; every program starts its steps in increasing order and each
\* at most once, a step is started only when the step started before it has
\* succeeded, and at most one step is active, which is the last one started.
C2_StrictSequence ==
  /\ NineStep => \A i \in 1..Len(started) : started[i] = i
  /\ \A i, j \in 1..Len(started) : i < j => started[i] < started[j]
  /\ \A i \in 2..Len(started) : outcome[started[i - 1]] = "ok"
  /\ Cardinality(Running) <= 1
  /\ \A k \in Running : k = LastStarted

C2_Witness ==
  /\ NineStep
  /\ started = <<1, 2, 3, 4, 5, 6, 7, 8, 9>>
  /\ Running = {9}

\* C3: when the destination probe has failed, no step that writes to the
\* destination was started, no directive was sent to it, and the destination
\* is what it was when the run started; the run ends in Failed.
C3_DestinationProbeFails ==
  probes.Destination = "fail" =>
    /\ \A i \in 1..Len(started) : started[i] = 1
    /\ issued = <<>>
    /\ dst = dst0
    /\ trigOff = {}
    /\ pc \in {"CheckingConnectivity", "Failed"}

C3_Witness ==
  /\ probes.Destination = "fail"
  /\ pc = "Failed"
  /\ dst0.tables # {}

\* C4: when the schema restore has failed, the run is in Failed and neither
\* the data dump nor the data restore was started.
C4_SchemaRestoreFails ==
  outcome[5] = "fail" =>
    /\ pc = "Failed"
    /\ \A i \in 1..Len(started) : started[i] \notin {7, 8}
    /\ dumpSaw.data = {}
    /\ restoreEnf = <<>>

C4_Witness ==
  /\ outcome[5] = "fail"
  /\ pc = "Failed"
  /\ dst # dst0

\* C5: when the schema restore tool is about to run, the destination holds
\* no table, sequence or enum type.
C5_EmptyBeforeSchemaRestore ==
  (pc = "RestoringSchema" /\ sub = "pg_restore") =>
    /\ dst.tables = {}
    /\ dst.seqs = {}
    /\ dst.enums = {}

\* C6: the schema dump tool is invoked on an existing empty directory, the
\* data dump tool is invoked on a path that holds nothing of the schema dump,
\* and the orchestrator changes the directory in steps 3 and 7 only.
C6_DumpDirLifecycle ==
  /\ \A d \in dumpSaw.schema : d = EmptyDir
  /\ \A d \in dumpSaw.data : \A a \in d.files : a.kind # "schema"
  /\ \A i \in 1..Len(fsOps) : fsOps[i].step \in {3, 7}

\* C7: after step 6 succeeded, the sessions the data restore writes through
\* run with session_replication_role = replica.
C7_ReplicaDuringRestore ==
  outcome[6] = "ok" =>
    \A i \in 1..Len(restoreEnf) : restoreEnf[i].role = "replica"

\* C8: a nine-step run that is Done leaves the destination with the tables
\* and rows of the source, enforcement enabled, and the dump directory
\* holding the last dump.
C8_DonePostcondition ==
  (NineStep /\ pc = "Done") =>
    /\ dst.tables = src.tables
    /\ dst.rows = src.rows
    /\ trigOff = {}
    /\ ~sess.open
    /\ dir = PgDumpResult("data", src)

\* C9: every successful nine-step run after the first leaves the destination
\* as the first successful run left it.
C9_RerunIdempotent ==
  NineStep => \A i \in 1..Len(dstDone) : dstDone[i] = dstDone[1]

C9_Witness ==
  /\ NineStep
  /\ Len(dstDone) = 2
  /\ \E t \in src.tables : src.rows[t] > 0
  /\ dstDone[1] # EmptyDB

CleanupEnded ==
  \/ outcome[2] \in {"ok", "fail"}
  \/ pc = "CleaningDestination" /\ sub = "ret"

CleanupFailed ==
  \/ outcome[2] = "fail"
  \/ pc = "CleaningDestination" /\ sub = "ret" /\ err # "nil"

\* C10: once the cleanup step has ended, no session is left with enforcement
\* switched off, and a cleanup that failed has left no drop behind: the
\* destination is what it was before the step.
C10_CleanupAtomic ==
  /\ CleanupEnded => ~(sess.open /\ sess.role = "replica")
  /\ CleanupFailed => dst = dst0

C10_Witness ==
  /\ pc = "Failed"
  /\ outcome[2] = "fail"
  /\ Cardinality(dst0.tables) = 2
  /\ \E i \in 1..Len(issued) : issued[i] = Directive(2, "replica", TRUE)

\* The directives of step 8 and the runs of the restore tool in step 8.
Tx(stmt) == {i \in 1..Len(issued) :
               issued[i].step = 8 /\ issued[i].stmt = stmt}

TxOk(stmt) == {i \in Tx(stmt) : issued[i].ok}

DataRestores == {i \in 1..Len(calls) :
                   calls[i].step = 8 /\ calls[i].tool = "pg_restore"}

DataRestoreEnded ==
  \/ outcome[8] \in {"ok", "fail"}
  \/ pc = "RestoringData" /\ sub = "ret"

DataRestoreReportsOk ==
  \/ outcome[8] = "ok"
  \/ pc = "RestoringData" /\ sub = "ret" /\ err = "nil"

\* C11: in the variant that wraps the data restore in a transaction
\* (part_000): the restore tool runs only after a BEGIN that succeeded and
\* runs at most once; a COMMIT is issued only after a restore that succeeded
\* and a ROLLBACK only after one that failed; when the step has ended after
\* the restore tool ran, exactly one of COMMIT and ROLLBACK was issued, the
\* one matching the restore's result; a failed restore makes the step report
\* an error whatever the ROLLBACK did; the step reports success iff BEGIN,
\* restore and COMMIT all succeeded.
C11_TxProtocol ==
  variant = "part_000" =>
    /\ Cardinality(Tx("BEGIN")) <= 1
    /\ Cardinality(DataRestores) <= 1
    /\ DataRestores # {} => TxOk("BEGIN") # {}
    /\ Tx("COMMIT") # {} => \E i \in DataRestores : calls[i].ok
    /\ Tx("ROLLBACK") # {} => \E i \in DataRestores : ~calls[i].ok
    /\ DataRestoreEnded =>
         /\ \A i \in DataRestores :
              /\ calls[i].ok =>
                   Cardinality(Tx("COMMIT")) = 1 /\ Tx("ROLLBACK") = {}
              /\ ~calls[i].ok =>
                   /\ Cardinality(Tx("ROLLBACK")) = 1 /\ Tx("COMMIT") = {}
                   /\ ~DataRestoreReportsOk
         /\ DataRestoreReportsOk <=>
              /\ TxOk("BEGIN") # {}
              /\ \E i \in DataRestores : calls[i].ok
              /\ TxOk("COMMIT") # {}

\* A restore that loaded part of the data failed, the ROLLBACK ran without
\* error, and the step still reported the failure.
C11_Witness ==
  /\ variant = "part_000"
  /\ pc = "Failed"
  /\ outcome[8] = "fail"
  /\ TxOk("ROLLBACK") # {}
  /\ dst.rows # EmptyRows

\* The filesystem calls of step 3 that succeeded in this run, in order.
ResetOps == SelectSeq(fsOps, LAMBDA o : o.step = 3)

ResetReturned == pc = "ResettingDir" /\ sub = "ret"

\* C12: when resetBackupDir returns, it returns no error exactly when its
\* RemoveAll and its MkdirAll both succeeded (a failure of either makes the
\* step fail; a missing directory does not); it then leaves an existing
\* empty directory, whatever the path held before, and a second reset
\* applied to that state gives the same state.
C12_ResetIdempotent ==
  ResetReturned =>
    /\ err = "nil" <=>
         (Len(ResetOps) = 2 /\ ResetOps[1].op = "RemoveAll"
                            /\ ResetOps[2].op = "MkdirAll")
    /\ err = "nil" =>
         /\ dir = EmptyDir
         /\ MkdirAll(RemoveAll(dir)) = dir

\* The reset returned without error although the directory did not exist.
C12_Witness ==
  /\ ResetReturned
  /\ err = "nil"
  /\ ~ResetOps[1].found
  /\ dir = EmptyDir

CleanReturned == pc = "CleaningDestination" /\ sub = "ret"

\* The cleanup script got as far as its first statement.
CleanScriptRan ==
  \E i \in 1..Len(issued) : issued[i] = Directive(2, "replica", TRUE)

\* Every DROP a further cleanup would issue on d names an object that does
\* not exist, so that cleanup changes nothing.
NothingLeftToDrop(d) ==
  \A p \in 1..Len(Phases(variant)) :
    \A n \in Catalog(d, Phases(variant)[p]) :
      Fold(n) \notin Catalog(d, Phases(variant)[p])

\* C13: a cleanup script that runs on an empty destination returns without
\* error and leaves the destination empty; after any cleanup that returned
\* without error a second cleanup has nothing to drop, so it leaves the
\* state the first one left.
C13_CleanupIdempotent ==
  CleanReturned =>
    /\ (dst0 = EmptyDB /\ CleanScriptRan) => (err = "nil" /\ dst = EmptyDB)
    /\ err = "nil" => NothingLeftToDrop(dst)

\* The cleanup of a second run found the destination already empty and
\* returned without error.
C13_Witness ==
  /\ run = 2
  /\ CleanReturned
  /\ err = "nil"
  /\ dst0 = EmptyDB
  /\ dst = EmptyDB

Terminated == pc \in {"Done", "Failed"}

AllStepsOk ==
  \A i \in 1..Len(StepsOf(variant)) : outcome[StepsOf(variant)[i]] = "ok"

SomeStepFailed == \E k \in 1..9 : outcome[k] = "fail"

\* os.Getwd failed: main() terminated before its first step.
GetwdFailed == started = <<>> /\ fatal = <<0>>

\* The statement of C14 as the specification words it: Failed exactly when
\* some step failed.
C14_FailedOnlyByStep ==
  /\ pc = "Done" <=> AllStepsOk
  /\ pc = "Failed" <=> SomeStepFailed

C14_Outcome ==
  /\ Terminated => Running = {}
  /\ pc = "Done" <=> AllStepsOk
  /\ pc = "Failed" <=> (SomeStepFailed \/ GetwdFailed)
  /\ ~(SomeStepFailed /\ GetwdFailed)

\* C14: when every call returns, every run that has begun ends in Done or in
\* Failed; it is in Done exactly when all the steps of main() succeeded, and
\* in Failed exactly when some step failed or the working directory could
\* not be determined before the first step.
C14_TerminationOutcome ==
  /\ []C14_Outcome
  /\ (pc = "Idle") ~> Terminated

\* A run that ended in Failed although no step was started.
C14_Witness ==
  /\ pc = "Failed"
  /\ GetwdFailed
  /\ \A k \in 1..9 : outcome[k] = "none"

Pings == SelectSeq(calls, LAMBDA c : c.tool = "ping")

BothProbesOk == probes.Source = "ok" /\ probes.Destination = "ok"

StepOneReturned == outcome[1] \in {"ok", "fail"}

StoppedAtStepOne == pc = "Failed" /\ LastStarted = 1

\* C15: the first probe goes to the source and a second one, to the
\* destination, is made only after the source probe succeeded; once step 1
\* has returned the run stopped there exactly when not both probes
\* succeeded; every probe is reported under the name of the endpoint it went
\* to, and a run stopped at step 1 has exactly one failed probe, its last.
C15_ConnectivityCheck ==
  /\ Len(Pings) <= 2
  /\ Pings # <<>> => Pings[1].conn = "Source"
  /\ Len(Pings) = 2 => (Pings[1].ok /\ Pings[2].conn = "Destination")
  /\ \A i \in 1..Len(Pings) :
       /\ Pings[i].label = Pings[i].conn
       /\ Pings[i].ok <=> probes[Pings[i].conn] = "ok"
  /\ StepOneReturned => (StoppedAtStepOne <=> ~BothProbesOk)
  /\ StoppedAtStepOne =>
       /\ ~Pings[Len(Pings)].ok
       /\ \A i \in 1..(Len(Pings) - 1) : Pings[i].ok

\* The source answered, the destination did not, and the run stopped at
\* step 1 with the failed probe reported as Destination.
C15_Witness ==
  /\ StoppedAtStepOne
  /\ Len(Pings) = 2
  /\ ~Pings[2].ok
  /\ Pings[2].label = "Destination"

FailedSteps == {k \in 1..9 : outcome[k] = "fail"}

\* The statement of C16 as the specification words it: the one fatal message
\* of a failed run names a step that failed.
C16_FatalNamesStep ==
  /\ pc = "Failed" => (Len(fatal) = 1 /\ fatal[1] \in FailedSteps)
  /\ pc = "Done" => (fatal = <<>> /\ completed = 1)

\* C16: a run in Failed has emitted exactly one fatal message; when a step
\* was started the message names the one step that failed, which is the
\* last one started, and otherwise it is the message of the failed
\* os.Getwd, which names no step.  A run in Done has emitted no fatal
\* message and the completion message once; a run still under way has
\* emitted neither.
C16_FatalMessage ==
  /\ pc = "Failed" =>
       /\ Len(fatal) = 1
       /\ IF started = <<>>
          THEN fatal[1] = 0 /\ FailedSteps = {}
          ELSE FailedSteps = {fatal[1]} /\ fatal[1] = LastStarted
       /\ completed = 0
  /\ pc = "Done" => (fatal = <<>> /\ completed = 1)
  /\ ~Terminated => (fatal = <<>> /\ completed = 0)

\* The schema restore failed and the run ended with the message of step 5.
C16_Witness ==
  /\ pc = "Failed"
  /\ FailedSteps = {5}
  /\ fatal = <<5>>

StepsBeforeEnableOk == \A k \in 1..8 : outcome[k] = "ok"

IssuedBy(k) == {i \in 1..Len(issued) : issued[i].step = k}

EnableStarted == \E i \in 1..Len(started) : started[i] = 9

\* main() stands at the call of enableConstraints.
EnableIsNext == pc = "EnablingConstraints" /\ sub = "call"

\* C17: in the nine-step programs the re-enable step is started only when
\* steps 1-8 have all succeeded, and once they have it is started or is the
\* call main() makes next; a run that failed at the data dump or the data
\* restore has issued the disable directive and no directive of the
\* re-enable step.
C17_EnableOnlyAfterAll ==
  NineStep =>
    /\ EnableStarted => StepsBeforeEnableOk
    /\ StepsBeforeEnableOk => (EnableStarted \/ EnableIsNext)
    /\ \A k \in {7, 8} :
         (pc = "Failed" /\ outcome[k] = "fail") =>
           /\ \E i \in IssuedBy(6) : issued[i] = Directive(6, "replica", TRUE)
           /\ IssuedBy(9) = {}
           /\ \A i \in 1..Len(calls) : calls[i].step # 9

\* The data restore failed after the constraints had been disabled.
C17_Witness ==
  /\ pc = "Failed"
  /\ outcome[8] = "fail"
  /\ IssuedBy(6) # {}
  /\ IssuedBy(9) = {}

SourceCalls == {i \in 1..Len(calls) : calls[i].conn = "Source"}

\* C18: the source database is the one the run started with; the only calls
\* addressed to the source are the probe of step 1 and the pg_dump of steps
\* 4 and 7; every psql and pg_restore call, and every call of the cleanup,
\* restore and constraint steps, is addressed to the destination.
C18_SourceReadOnly ==
  /\ src = src0
  /\ \A i \in SourceCalls :
       /\ calls[i].tool \in {"ping", "pg_dump"}
       /\ calls[i].step \in {1, 4, 7}
  /\ \A i \in 1..Len(calls) :
       /\ calls[i].tool \in {"psql", "pg_restore"}
            => calls[i].conn = "Destination"
       /\ calls[i].step \in {2, 5, 6, 8, 9}
            => calls[i].conn = "Destination"

\* A completed run that dumped a populated source twice and changed the
\* destination.
C18_Witness ==
  /\ pc = "Done"
  /\ src.tables # {}
  /\ \E i \in SourceCalls : calls[i].step = 7 /\ calls[i].ok
  /\ \E i \in 1..Len(calls) : calls[i].tool = "pg_restore" /\ calls[i].ok
  /\ dst # dst0
====
